---- MODULE Spec2Model ----
(***************************************************************************)
(* Model of the effector-router path library (lib: generatePath,           *)
(* matchRoutes, flattenRoutes, rankRouteBranches, computeScore,            *)
(* matchRouteBranch, matchPath, compilePath, resolvePath, resolveTo,       *)
(* stripBasename) and of the stores of index.ts that feed it ($location,   *)
(* $routes, $matchedRoutes).                                               *)
(*                                                                         *)
(* A JavaScript string is a sequence of one-character strings, so that     *)
(* startsWith, slice, split, join and the regular expressions of the       *)
(* library are computed character by character.                            *)
(*                                                                         *)
(* A local constant of the code whose value is used more than once is      *)
(* bound as  CHOOSE r \in {e(v) : v \in {value}} : TRUE,  which computes    *)
(* the value once, as the const declaration of the code does.              *)
(***************************************************************************)
EXTENDS Integers, Sequences, FiniteSets, TLC

\* fn, args, ret, pc: the library function being called, its arguments, what
\* it returned, and whether it has run; for the reactive layer fn and args
\* are the last event fired and its payload.
\* S_location, S_routes, S_matchedRoutes: the stores $location, $routes and
\* $matchedRoutes of index.ts.
VARIABLES fn, args, ret, pc, S_location, S_routes, S_matchedRoutes

stores == <<S_location, S_routes, S_matchedRoutes>>

vars == <<fn, args, ret, pc, S_location, S_routes, S_matchedRoutes>>

-----------------------------------------------------------------------------
(* Characters and JavaScript string primitives                             *)

LowerOf ==
  ("A" :> "a") @@ ("B" :> "b") @@ ("C" :> "c") @@ ("D" :> "d") @@
  ("E" :> "e") @@ ("F" :> "f") @@ ("G" :> "g") @@ ("H" :> "h") @@
  ("I" :> "i") @@ ("J" :> "j") @@ ("K" :> "k") @@ ("L" :> "l") @@
  ("M" :> "m") @@ ("N" :> "n") @@ ("O" :> "o") @@ ("P" :> "p") @@
  ("Q" :> "q") @@ ("R" :> "r") @@ ("S" :> "s") @@ ("T" :> "t") @@
  ("U" :> "u") @@ ("V" :> "v") @@ ("W" :> "w") @@ ("X" :> "x") @@
  ("Y" :> "y") @@ ("Z" :> "z")

UpperChars == DOMAIN LowerOf

LowerChars == {LowerOf[c] : c \in UpperChars}

DigitChars == {"0", "1", "2", "3", "4", "5", "6", "7", "8", "9"}

\* the character class \w of the regular expressions
WordChars == LowerChars \cup UpperChars \cup DigitChars \cup {"_"}

lowerChar(c) == IF c \in UpperChars THEN LowerOf[c] ELSE c

toLowerCase(s) == [i \in 1..Len(s) |-> lowerChar(s[i])]

startsWith(s, p) == Len(p) <= Len(s) /\ SubSeq(s, 1, Len(p)) = p

endsWith(s, p) ==
  Len(p) <= Len(s) /\ SubSeq(s, Len(s) - Len(p) + 1, Len(s)) = p

\* s.slice(n) for 0 <= n
slice(s, n) == IF n >= Len(s) THEN << >> ELSE SubSeq(s, n + 1, Len(s))

\* s.replace(/\/+$/, '')
RECURSIVE dropTrailingSlashes(_)
dropTrailingSlashes(s) ==
  IF Len(s) > 0 /\ s[Len(s)] = "/"
    THEN dropTrailingSlashes(SubSeq(s, 1, Len(s) - 1))
    ELSE s

\* s.replace(/^\/*/, '')
RECURSIVE dropLeadingSlashes(_)
dropLeadingSlashes(s) ==
  IF Len(s) > 0 /\ s[1] = "/" THEN dropLeadingSlashes(Tail(s)) ELSE s

\* s.replace(/\/\/+/g, '/')
RECURSIVE collapseSlashes(_)
collapseSlashes(s) ==
  IF Len(s) = 0 THEN << >>
  ELSE IF Len(s) >= 2 /\ s[1] = "/" /\ s[2] = "/"
    THEN collapseSlashes(Tail(s))
    ELSE <<s[1]>> \o collapseSlashes(Tail(s))

\* s.split('/'): a sequence of segments, never empty
RECURSIVE split(_)
split(s) ==
  IF \A i \in 1..Len(s) : s[i] # "/" THEN <<s>>
  ELSE LET i == CHOOSE k \in 1..Len(s) :
                  s[k] = "/" /\ \A j \in 1..(k - 1) : s[j] # "/"
       IN  <<SubSeq(s, 1, i - 1)>> \o split(slice(s, i))

\* segs.join('/')
RECURSIVE join(_)
join(segs) ==
  IF Len(segs) = 0 THEN << >>
  ELSE IF Len(segs) = 1 THEN segs[1]
  ELSE segs[1] \o <<"/">> \o join(Tail(segs))

joinPaths(paths) == collapseSlashes(join(paths))

Max(S) == CHOOSE m \in S : \A n \in S : n <= m

\* the name of the splat parameter
Star == <<"*">>

NoParams == [k \in {} |-> << >>]

-----------------------------------------------------------------------------
(* decodeURIComponent and safelyDecodeURIComponent                         *)

\* the percent escapes the pathnames of the model use; any other use of "%"
\* in them is malformed
HexTable == (<<"4", "1">> :> "A") @@ (<<"2", "F">> :> "/")

RECURSIVE wellEncoded(_)
wellEncoded(v) ==
  IF Len(v) = 0 THEN TRUE
  ELSE IF v[1] = "%"
    THEN Len(v) >= 3 /\ <<v[2], v[3]>> \in DOMAIN HexTable
         /\ wellEncoded(slice(v, 3))
    ELSE wellEncoded(Tail(v))

RECURSIVE decodeURIComponent(_)
decodeURIComponent(v) ==
  IF Len(v) = 0 THEN << >>
  ELSE IF v[1] = "%"
    THEN <<HexTable[<<v[2], v[3]>>]>> \o decodeURIComponent(slice(v, 3))
    ELSE <<v[1]>> \o decodeURIComponent(Tail(v))

safelyDecodeURIComponent(v) ==
  IF wellEncoded(v) THEN decodeURIComponent(v) ELSE v

-----------------------------------------------------------------------------
(* compilePath: the regular expression as a token list and a tail          *)

\* the length of the \w+ run that starts at position i of s
RECURSIVE wordRun(_, _)
wordRun(s, i) ==
  IF i <= Len(s) /\ s[i] \in WordChars THEN 1 + wordRun(s, i + 1) ELSE 0

\* .replace(/:(\w+)/g, ...) over the pattern: ":" followed by a word run is
\* a parameter, every other character a literal
RECURSIVE tokens(_, _)
tokens(s, i) ==
  IF i > Len(s) THEN << >>
  ELSE IF s[i] = ":" /\ wordRun(s, i + 1) > 0
    THEN LET n == wordRun(s, i + 1)
         IN  <<[param |-> TRUE, name |-> SubSeq(s, i + 1, i + n), c |-> ":"]>>
             \o tokens(s, i + 1 + n)
    ELSE <<[param |-> FALSE, name |-> << >>, c |-> s[i]]>> \o tokens(s, i + 1)

\* path.replace(/\/*\*?$/, '')
stripTrailingSplat(path) ==
  IF Len(path) > 0 /\ path[Len(path)] = "*"
    THEN dropTrailingSlashes(SubSeq(path, 1, Len(path) - 1))
    ELSE dropTrailingSlashes(path)

RECURSIVE tokenNames(_)
tokenNames(toks) ==
  IF Len(toks) = 0 THEN << >>
  ELSE (IF toks[1].param THEN <<toks[1].name>> ELSE << >>)
       \o tokenNames(Tail(toks))

compilePath(path, caseSensitive, end) ==
  LET body == tokens(<<"/">> \o dropLeadingSlashes(stripTrailingSplat(path)), 1)
      splat == endsWith(path, Star)
  IN  [ body |-> body,
        tail |-> IF splat
                   THEN IF path = Star \/ path = <<"/", "*">>
                          THEN "splatAll"      \* (.*)$
                          ELSE "splatRest"     \* (?:\/(.+)|\/*)$
                   ELSE IF end THEN "end"      \* \/*$
                               ELSE "boundary", \* (?:\b|$)
        caseSensitive |-> caseSensitive,
        paramNames |-> tokenNames(body) \o (IF splat THEN <<Star>> ELSE << >>) ]

-----------------------------------------------------------------------------
(* pathname.match(matcher): a backtracking match anchored at the start     *)

NoExec == [ok |-> FALSE, end |-> 0, caps |-> << >>]

onlySlashes(s, pos) == \A j \in (pos + 1)..Len(s) : s[j] = "/"

\* \b at offset pos of s
wordBoundary(s, pos) ==
  (pos >= 1 /\ s[pos] \in WordChars)
    # (pos + 1 <= Len(s) /\ s[pos + 1] \in WordChars)

\* a capture group is [def, v]; def is FALSE for a group that took no part
execTail(re, s, pos) ==
  CASE re.tail = "end" ->
         IF onlySlashes(s, pos)
           THEN [ok |-> TRUE, end |-> Len(s), caps |-> << >>]
           ELSE NoExec
    [] re.tail = "boundary" ->
         IF wordBoundary(s, pos) \/ pos = Len(s)
           THEN [ok |-> TRUE, end |-> pos, caps |-> << >>]
           ELSE NoExec
    [] re.tail = "splatAll" ->
         [ok |-> TRUE, end |-> Len(s),
          caps |-> <<[def |-> TRUE, v |-> slice(s, pos)]>>]
    [] re.tail = "splatRest" ->
         IF pos + 2 <= Len(s) /\ s[pos + 1] = "/"
           THEN [ok |-> TRUE, end |-> Len(s),
                 caps |-> <<[def |-> TRUE, v |-> slice(s, pos + 1)]>>]
           ELSE IF onlySlashes(s, pos)
             THEN [ok |-> TRUE, end |-> Len(s),
                   caps |-> <<[def |-> FALSE, v |-> << >>]>>]
             ELSE NoExec

\* the length of the run of characters other than "/" after offset pos
RECURSIVE segmentRun(_, _)
segmentRun(s, pos) ==
  IF pos + 1 <= Len(s) /\ s[pos + 1] # "/" THEN 1 + segmentRun(s, pos + 1) ELSE 0

sameChar(re, a, b) ==
  IF re.caseSensitive THEN a = b ELSE lowerChar(a) = lowerChar(b)

\* token i of the body onwards, from offset pos; a parameter group ([^\/]+)
\* is greedy and gives characters back until the rest matches
RECURSIVE exec(_, _, _, _)
exec(re, s, i, pos) ==
  IF i > Len(re.body) THEN execTail(re, s, pos)
  ELSE IF re.body[i].param
    THEN LET good == {n \in 1..segmentRun(s, pos) : exec(re, s, i + 1, pos + n).ok}
         IN  IF good = {} THEN NoExec
             ELSE LET n == Max(good)
                      r == exec(re, s, i + 1, pos + n)
                  IN  [ok |-> TRUE, end |-> r.end,
                       caps |-> <<[def |-> TRUE, v |-> SubSeq(s, pos + 1, pos + n)]>>
                                \o r.caps]
    ELSE IF pos + 1 <= Len(s) /\ sameChar(re, s[pos + 1], re.body[i].c)
      THEN exec(re, s, i + 1, pos + 1)
      ELSE NoExec

-----------------------------------------------------------------------------
(* matchPath                                                               *)

null == [isNull |-> TRUE]

\* s.replace(/(.)\/+$/, '$1')
stripSlashKeepFirst(s) ==
  IF Len(s) >= 2 /\ s[Len(s)] = "/"
    THEN LET t == dropTrailingSlashes(s)
         IN  IF Len(t) = 0 THEN <<s[1]>> ELSE t
    ELSE s

\* captureGroups[index] || ''
capOrEmpty(cap) == IF cap.def THEN cap.v ELSE << >>

\* reduceParams reading the groups from the match array itself, whose element
\* 0 is the whole match, instead of from match.slice(1)
RECURSIVE reduceParamsShifted(_, _, _, _, _)
reduceParamsShifted(paramNames, caps, matchedPathname, index, memo) ==
  IF index > Len(paramNames) THEN memo
  ELSE LET paramName == paramNames[index]
           raw == IF index = 1 THEN matchedPathname
                  ELSE capOrEmpty(caps[index - 1])
           base == IF paramName = Star
                     THEN stripSlashKeepFirst(
                            SubSeq(matchedPathname, 1, Len(matchedPathname) - Len(raw)))
                     ELSE memo.pathnameBase
       IN  reduceParamsShifted(paramNames, caps, matchedPathname, index + 1,
             [params |-> (paramName :> safelyDecodeURIComponent(raw)) @@ memo.params,
              pathnameBase |-> base])

\* paramNames.reduce(...): memo is [params, pathnameBase]
RECURSIVE reduceParams(_, _, _, _, _)
reduceParams(paramNames, caps, matchedPathname, index, memo) ==
  IF index > Len(paramNames) THEN memo
  ELSE LET paramName == paramNames[index]
           raw == capOrEmpty(caps[index])
           base == IF paramName = Star
                     THEN stripSlashKeepFirst(
                            SubSeq(matchedPathname, 1, Len(matchedPathname) - Len(raw)))
                     ELSE memo.pathnameBase
       IN  reduceParams(paramNames, caps, matchedPathname, index + 1,
             [params |-> (paramName :> safelyDecodeURIComponent(raw)) @@ memo.params,
              pathnameBase |-> base])

\* what matchPath returns for the match m of the compiled pattern re
pathMatch(pattern, pathname, re, m) ==
  IF ~m.ok THEN null
  ELSE LET matchedPathname == SubSeq(pathname, 1, m.end)
       IN  CHOOSE r \in
             {[isNull |-> FALSE,
               params |-> memo.params,
               pathname |-> matchedPathname,
               pathnameBase |-> memo.pathnameBase,
               pattern |-> pattern] :
              memo \in {reduceParams(re.paramNames, m.caps, matchedPathname, 1,
                          [params |-> NoParams,
                           pathnameBase |-> stripSlashKeepFirst(matchedPathname)])}} :
             TRUE

\* matchPath with the compiled pattern re
matchCompiled(pattern, pathname, re) ==
  CHOOSE r \in
    {pathMatch(pattern, pathname, re, m) : m \in {exec(re, pathname, 1, 0)}} :
    TRUE

\* pattern is [path, caseSensitive, end]
matchPath(pattern, pathname) ==
  CHOOSE r \in
    {matchCompiled(pattern, pathname, re) :
       re \in {compilePath(pattern.path, pattern.caseSensitive, pattern.end)}} :
    TRUE

\* matchPath's string overload
stringPattern(path) == [path |-> path, caseSensitive |-> FALSE, end |-> TRUE]

-----------------------------------------------------------------------------
(* computeScore                                                            *)

dynamicSegmentValue == 3
indexRouteValue == 2
emptySegmentValue == 1
staticSegmentValue == 10
splatPenalty == -2

isSplat(s) == s = Star

\* paramRe = /^:\w+$/
paramReTest(s) ==
  Len(s) >= 2 /\ s[1] = ":" /\ \A i \in 2..Len(s) : s[i] \in WordChars

\* segmentValue with a static segment worth no more than a dynamic one
segmentValueFlat(segment) ==
  IF segment = << >> THEN emptySegmentValue ELSE dynamicSegmentValue

segmentValue(segment) ==
  IF paramReTest(segment) THEN dynamicSegmentValue
  ELSE IF segment = << >> THEN emptySegmentValue
  ELSE staticSegmentValue

\* segments.filter((s) => !isSplat(s)).reduce(..., initialScore)
RECURSIVE reduceScore(_, _)
reduceScore(segments, score) ==
  IF Len(segments) = 0 THEN score
  ELSE reduceScore(Tail(segments),
         IF isSplat(segments[1]) THEN score ELSE score + segmentValue(segments[1]))

\* computeScore with the splat penalty applied once for every splat segment
computeScorePerSplat(path, index) ==
  LET segments == split(path)
      splats == Cardinality({i \in 1..Len(segments) : isSplat(segments[i])})
      s1 == Len(segments) + splats * splatPenalty
      initialScore == IF index THEN s1 + indexRouteValue ELSE s1
  IN  reduceScore(segments, initialScore)

computeScore(path, index) ==
  LET segments == split(path)
      s0 == Len(segments)
      s1 == IF \E i \in 1..Len(segments) : isSplat(segments[i])
              THEN s0 + splatPenalty ELSE s0
      initialScore == IF index THEN s1 + indexRouteValue ELSE s1
  IN  reduceScore(segments, initialScore)

-----------------------------------------------------------------------------
(* flattenRoutes                                                           *)

\* A RouteObject is [hasPath, path, index, caseSensitive, children];
\* hasPath is FALSE for a route whose path is undefined.

\* routes.forEach((route, index) => ...) from position index (0-based) on;
\* the result is [threw, branches]
RECURSIVE flattenFrom(_, _, _, _, _)
flattenFrom(routes, index, branches, parentsMeta, parentPath) ==
  IF index >= Len(routes) THEN [threw |-> FALSE, branches |-> branches]
  ELSE LET route == routes[index + 1]
           relativePath0 == IF route.hasPath THEN route.path ELSE << >>
           absolute == startsWith(relativePath0, <<"/">>)
           relativePath == IF absolute
                             THEN slice(relativePath0, Len(parentPath))
                             ELSE relativePath0
           meta == [relativePath |-> relativePath,
                    caseSensitive |-> route.caseSensitive,
                    childrenIndex |-> index]
           path == joinPaths(<<parentPath, relativePath>>)
           routesMeta == Append(parentsMeta, meta)
       IN  IF absolute /\ ~startsWith(relativePath0, parentPath)
             THEN [threw |-> TRUE, branches |-> branches]   \* invariant(...)
           ELSE IF ~route.hasPath /\ ~route.index
             THEN flattenFrom(routes, index + 1, branches, parentsMeta, parentPath)
           ELSE flattenFrom(routes, index + 1,
                  Append(branches,
                         [path |-> path,
                          score |-> computeScore(path, route.index),
                          routesMeta |-> routesMeta]),
                  parentsMeta, parentPath)

flattenRoutes(routes, branches, parentsMeta, parentPath) ==
  flattenFrom(routes, 0, branches, parentsMeta, parentPath)

-----------------------------------------------------------------------------
(* rankRouteBranches                                                       *)

\* compareIndexes with the operands of the subtraction exchanged
compareIndexesReversed(a, b) ==
  LET siblings == Len(a) = Len(b) /\ \A i \in 1..(Len(a) - 1) : a[i] = b[i]
  IN  IF siblings THEN b[Len(b)] - a[Len(a)] ELSE 0

compareIndexes(a, b) ==
  LET siblings == Len(a) = Len(b) /\ \A i \in 1..(Len(a) - 1) : a[i] = b[i]
  IN  IF siblings THEN a[Len(a)] - b[Len(b)] ELSE 0

childrenIndexes(branch) ==
  [i \in 1..Len(branch.routesMeta) |-> branch.routesMeta[i].childrenIndex]

\* the comparator handed to branches.sort
compareBranches(a, b) ==
  IF a.score # b.score
    THEN b.score - a.score
    ELSE compareIndexes(childrenIndexes(a), childrenIndexes(b))

\* Array.prototype.sort is a stable sort: x goes after every element of the
\* sorted prefix that does not compare greater than it
RECURSIVE insertSorted(_, _)
insertSorted(sorted, x) ==
  IF Len(sorted) = 0 THEN <<x>>
  ELSE IF compareBranches(sorted[Len(sorted)], x) > 0
    THEN Append(insertSorted(SubSeq(sorted, 1, Len(sorted) - 1), x),
                sorted[Len(sorted)])
    ELSE Append(sorted, x)

RECURSIVE sortFrom(_, _)
sortFrom(sorted, rest) ==
  IF Len(rest) = 0 THEN sorted
  ELSE sortFrom(insertSorted(sorted, rest[1]), Tail(rest))

rankRouteBranches(branches) == sortFrom(<< >>, branches)

-----------------------------------------------------------------------------
(* matchRouteBranch                                                        *)

\* routes[i] for an i past the end of the array
undefinedRoute ==
  [hasPath |-> FALSE, path |-> <<"undefined">>, index |-> FALSE,
   caseSensitive |-> FALSE, children |-> << >>]

\* every element of matches holds the same matchedParams object
withParams(matches, matchedParams) ==
  [k \in 1..Len(matches) |-> [matches[k] EXCEPT !.params = matchedParams]]

\* the rest of one iteration of the loop of matchRouteBranch, match being
\* what matchPath returned: [params, matchedPathname, matches] after it
branchStep(meta, routes, matchedParams, matchedPathname, matches, match) ==
  LET route == IF meta.childrenIndex < Len(routes)
                 THEN routes[meta.childrenIndex + 1]
                 ELSE undefinedRoute
  IN  [params |-> match.params @@ matchedParams,
       matchedPathname |->
         IF match.pathnameBase # <<"/">>
           THEN joinPaths(<<matchedPathname, match.pathnameBase>>)
           ELSE matchedPathname,
       matches |->
         Append(matches,
                [params |-> match.params @@ matchedParams,
                 pathname |-> joinPaths(<<matchedPathname, match.pathname>>),
                 pathnameBase |-> joinPaths(<<matchedPathname, match.pathnameBase>>),
                 route |-> route])]

\* the loop of matchRouteBranch from i (0-based) on
RECURSIVE branchLoop(_, _, _, _, _, _, _)
branchLoop(routesMeta, pathname, i, routes, matchedParams, matchedPathname, matches) ==
  IF i >= Len(routesMeta)
    THEN [isNull |-> FALSE, matches |-> withParams(matches, matchedParams)]
  ELSE LET meta == routesMeta[i + 1]
           end == i = Len(routesMeta) - 1
           rest == slice(pathname, Len(matchedPathname))
           remainingPathname ==
             IF matchedPathname = <<"/">> THEN pathname
             ELSE IF rest = << >> THEN <<"/">> ELSE rest
       IN  CHOOSE r \in
             {IF match.isNull THEN null
              ELSE CHOOSE q \in
                     {branchLoop(routesMeta, pathname, i + 1, << >>, step.params,
                                 step.matchedPathname, step.matches) :
                        step \in {branchStep(meta, routes, matchedParams,
                                             matchedPathname, matches, match)}} :
                     TRUE :
              match \in {matchPath([path |-> meta.relativePath,
                                    caseSensitive |-> meta.caseSensitive,
                                    end |-> end],
                                   remainingPathname)}} :
             TRUE

matchRouteBranch(branch, routesArg, pathname) ==
  branchLoop(branch.routesMeta, pathname, 0, routesArg, NoParams, <<"/">>, << >>)

-----------------------------------------------------------------------------
(* stripBasename, parsePath, matchRoutes                                   *)

\* stripBasename comparing the basename in a case-sensitive way
stripBasenameExact(pathname, basename) ==
  IF basename = <<"/">> THEN [isNull |-> FALSE, v |-> pathname]
  ELSE IF ~startsWith(pathname, basename) THEN null
  ELSE IF Len(pathname) > Len(basename) /\ pathname[Len(basename) + 1] # "/"
    THEN null
  ELSE LET rest == slice(pathname, Len(basename))
       IN  [isNull |-> FALSE, v |-> IF rest = << >> THEN <<"/">> ELSE rest]

stripBasename(pathname, basename) ==
  IF basename = <<"/">> THEN [isNull |-> FALSE, v |-> pathname]
  ELSE IF ~startsWith(toLowerCase(pathname), toLowerCase(basename)) THEN null
  ELSE IF Len(pathname) > Len(basename) /\ pathname[Len(basename) + 1] # "/"
    THEN null
  ELSE LET rest == slice(pathname, Len(basename))
       IN  [isNull |-> FALSE, v |-> IF rest = << >> THEN <<"/">> ELSE rest]

\* the first position of character c in s, 0 when there is none
indexOf(s, c) ==
  IF \E i \in 1..Len(s) : s[i] = c
    THEN CHOOSE i \in 1..Len(s) : s[i] = c /\ \A j \in 1..(i - 1) : s[j] # c
    ELSE 0

\* parsePath of the history package: [pathname, search, hash], each a
\* [def, v] that is not defined when the part is absent
undef == [def |-> FALSE, v |-> << >>]

parsePath(path) ==
  LET h == indexOf(path, "#")
      p1 == IF h > 0 THEN SubSeq(path, 1, h - 1) ELSE path
      q == indexOf(p1, "?")
      p2 == IF q > 0 THEN SubSeq(p1, 1, q - 1) ELSE p1
  IN  [pathname |-> IF p2 # << >> THEN [def |-> TRUE, v |-> p2] ELSE undef,
       search |-> IF q > 0 THEN [def |-> TRUE, v |-> slice(p1, q - 1)] ELSE undef,
       hash |-> IF h > 0 THEN [def |-> TRUE, v |-> slice(path, h - 1)] ELSE undef]

\* matchLoop without the "matches == null" test of the loop: every branch is
\* tried and the last one that matches wins
RECURSIVE matchLoopLast(_, _, _, _)
matchLoopLast(branches, routes, pathname, i) ==
  IF i >= Len(branches) THEN [tried |-> i, matches |-> null]
  ELSE CHOOSE r \in
         {IF ~rest.matches.isNull THEN rest
          ELSE [tried |-> Len(branches),
                matches |-> matchRouteBranch(branches[i + 1], routes, pathname)] :
          rest \in {matchLoopLast(branches, routes, pathname, i + 1)}} :
         TRUE

\* the for loop of matchRoutes from i (0-based) on: [tried, matches]
RECURSIVE matchLoop(_, _, _, _)
matchLoop(branches, routes, pathname, i) ==
  IF i >= Len(branches) THEN [tried |-> i, matches |-> null]
  ELSE CHOOSE r \in
         {IF ~matches.isNull THEN [tried |-> i + 1, matches |-> matches]
          ELSE matchLoop(branches, routes, pathname, i + 1) :
          matches \in {matchRouteBranch(branches[i + 1], routes, pathname)}} :
         TRUE

\* matchRoutes once the routes are flattened into f = [threw, branches]
rankAndMatch(routes, pathname, f) ==
  IF f.threw
    THEN [threw |-> TRUE, pathname |-> pathname, flat |-> f.branches,
          branches |-> << >>, tried |-> 0, matches |-> null]
  ELSE CHOOSE r \in
         {CHOOSE q \in
            {[threw |-> FALSE, pathname |-> pathname, flat |-> f.branches,
              branches |-> branches, tried |-> l.tried, matches |-> l.matches] :
             l \in {matchLoop(branches, routes, pathname.v, 0)}} :
            TRUE :
          branches \in {rankRouteBranches(f.branches)}} :
         TRUE

\* matchRoutes once the pathname is stripped of the basename
flattenAndMatch(routes, pathname) ==
  IF pathname.isNull
    THEN [threw |-> FALSE, pathname |-> pathname, flat |-> << >>,
          branches |-> << >>, tried |-> 0, matches |-> null]
  ELSE CHOOSE r \in
         {rankAndMatch(routes, pathname, f) :
            f \in {flattenRoutes(routes, << >>, << >>, << >>)}} :
         TRUE

\* location.pathname || '/'
pathnameOrRoot(location) ==
  IF location.pathname.def /\ location.pathname.v # << >>
    THEN location.pathname.v ELSE <<"/">>

\* one run of matchRoutes with its local variables: threw is TRUE when
\* flattenRoutes aborted, tried counts the calls of matchRouteBranch
matchRoutesRun(routes, locationArg, basename) ==
  CHOOSE r \in
    {flattenAndMatch(routes, pathname) :
       pathname \in {stripBasename(pathnameOrRoot(parsePath(locationArg)),
                                   basename)}} :
    TRUE

matchRoutes(routes, locationArg, basename) ==
  matchRoutesRun(routes, locationArg, basename).matches

\* matchRoutes when locationArg is a Location object and not a string:
\* location is locationArg itself
matchRoutesLocation(routes, locationArg, basename) ==
  CHOOSE r \in
    {flattenAndMatch(routes, pathname).matches :
       pathname \in {stripBasename(pathnameOrRoot(locationArg), basename)}} :
    TRUE

-----------------------------------------------------------------------------
(* generatePath                                                            *)

\* path.replace(/:(\w+)/g, ...): [threw, v]; threw when a parameter is missing
RECURSIVE interpolate(_, _)
interpolate(toks, params) ==
  IF Len(toks) = 0 THEN [threw |-> FALSE, v |-> << >>]
  ELSE LET r == interpolate(Tail(toks), params)
       IN  IF toks[1].param
             THEN IF toks[1].name \notin DOMAIN params
                    THEN [threw |-> TRUE, v |-> << >>]   \* invariant(...)
                  ELSE IF r.threw THEN r
                  ELSE [r EXCEPT !.v = params[toks[1].name] \o @]
           ELSE IF r.threw THEN r
           ELSE [r EXCEPT !.v = <<toks[1].c>> \o @]

\* .replace(/\/*\*$/, () => ...)
replaceSplat(s, params) ==
  IF Len(s) > 0 /\ s[Len(s)] = "*"
    THEN dropTrailingSlashes(SubSeq(s, 1, Len(s) - 1))
         \o (IF Star \notin DOMAIN params THEN << >>
             ELSE <<"/">> \o dropLeadingSlashes(params[Star]))
    ELSE s

generatePath(path, params) ==
  LET r == interpolate(tokens(path, 1), params)
  IN  IF r.threw THEN r ELSE [r EXCEPT !.v = replaceSplat(@, params)]

-----------------------------------------------------------------------------
(* resolvePath, resolvePathname, resolveTo                                 *)

normalizeSearch(search) ==
  IF search = << >> \/ search = <<"?">> THEN << >>
  ELSE IF startsWith(search, <<"?">>) THEN search
  ELSE <<"?">> \o search

normalizeHash(hash) ==
  IF hash = << >> \/ hash = <<"#">> THEN << >>
  ELSE IF startsWith(hash, <<"#">>) THEN hash
  ELSE <<"#">> \o hash

\* relativeSegments.forEach(...) over the stack segments
RECURSIVE walkSegments(_, _)
walkSegments(segments, relativeSegments) ==
  IF Len(relativeSegments) = 0 THEN segments
  ELSE LET segment == relativeSegments[1]
       IN  walkSegments(
             IF segment = <<".", ".">>
               THEN IF Len(segments) > 1
                      THEN SubSeq(segments, 1, Len(segments) - 1)
                      ELSE segments
             ELSE IF segment # <<".">> THEN Append(segments, segment)
             ELSE segments,
             Tail(relativeSegments))

resolvePathname(relativePath, fromPathname) ==
  LET segments == walkSegments(split(dropTrailingSlashes(fromPathname)),
                               split(relativePath))
  IN  IF Len(segments) > 1 THEN join(segments) ELSE <<"/">>

\* to is a parsed path [pathname, search, hash]
resolvePath(to, fromPathname) ==
  LET toPathname == to.pathname
  IN  [pathname |-> IF toPathname.def /\ toPathname.v # << >>
                      THEN IF startsWith(toPathname.v, <<"/">>)
                             THEN toPathname.v
                             ELSE resolvePathname(toPathname.v, fromPathname)
                      ELSE fromPathname,
       search |-> normalizeSearch(IF to.search.def THEN to.search.v ELSE << >>),
       hash |-> normalizeHash(IF to.hash.def THEN to.hash.v ELSE << >>)]

\* shiftUps without the decrement of routePathnameIndex
RECURSIVE shiftUpsNoStep(_, _)
shiftUpsNoStep(toSegments, routePathnameIndex) ==
  IF Len(toSegments) > 0 /\ toSegments[1] = <<".", ".">>
    THEN shiftUpsNoStep(Tail(toSegments), routePathnameIndex)
    ELSE [toSegments |-> toSegments, routePathnameIndex |-> routePathnameIndex]

\* while (toSegments[0] === '..') { toSegments.shift(); routePathnameIndex -= 1 }
RECURSIVE shiftUps(_, _)
shiftUps(toSegments, routePathnameIndex) ==
  IF Len(toSegments) > 0 /\ toSegments[1] = <<".", ".">>
    THEN shiftUps(Tail(toSegments), routePathnameIndex - 1)
    ELSE [toSegments |-> toSegments, routePathnameIndex |-> routePathnameIndex]

\* toArg === '' || to.pathname === '' ? '/' : to.pathname
targetPathname(toArg, to) ==
  IF toArg = << >> \/ (to.pathname.def /\ to.pathname.v = << >>)
    THEN [def |-> TRUE, v |-> <<"/">>]
    ELSE to.pathname

\* the end of resolveTo: path is resolvePath(to, from)
withTrailingSlash(toPathname, path, from, routePathnameIndex) ==
  LET slash == toPathname.def /\ toPathname.v # << >> /\ toPathname.v # <<"/">>
               /\ endsWith(toPathname.v, <<"/">>)
               /\ ~endsWith(path.pathname, <<"/">>)
  IN  [pathname |-> IF slash THEN path.pathname \o <<"/">> ELSE path.pathname,
       search |-> path.search,
       hash |-> path.hash,
       from |-> from,
       routePathnameIndex |-> routePathnameIndex]

\* resolveTo once the leading ".." segments are shifted off: ups is
\* [toSegments, routePathnameIndex]
resolveFrom(to0, toPathname, ups, routePathnames, locationPathname) ==
  LET stepped == toPathname.def /\ startsWith(toPathname.v, <<".", ".">>)
      to == IF stepped
              THEN [to0 EXCEPT !.pathname = [def |-> TRUE, v |-> join(ups.toSegments)]]
              ELSE to0
      from == IF ~toPathname.def THEN locationPathname
              ELSE IF ups.routePathnameIndex >= 0
                THEN routePathnames[ups.routePathnameIndex + 1]
                ELSE <<"/">>
  IN  CHOOSE r \in
        {withTrailingSlash(toPathname, path, from, ups.routePathnameIndex) :
           path \in {resolvePath(to, from)}} :
        TRUE

\* resolveTo on the parsed target to0
resolveParsed(to0, toPathname, routePathnames, locationPathname) ==
  CHOOSE r \in
    {resolveFrom(to0, toPathname, ups, routePathnames, locationPathname) :
       ups \in {IF toPathname.def /\ startsWith(toPathname.v, <<".", ".">>)
                  THEN shiftUps(split(toPathname.v), Len(routePathnames) - 1)
                  ELSE [toSegments |-> << >>,
                        routePathnameIndex |-> Len(routePathnames) - 1]}} :
    TRUE

\* one run of resolveTo on a string toArg, with its local variables
\* from and routePathnameIndex next to the returned path
resolveToRun(toArg, routePathnames, locationPathname) ==
  CHOOSE r \in
    {resolveParsed(to0, targetPathname(toArg, to0), routePathnames,
                   locationPathname) :
       to0 \in {parsePath(toArg)}} :
    TRUE

resolveTo(toArg, routePathnames, locationPathname) ==
  LET r == resolveToRun(toArg, routePathnames, locationPathname)
  IN  [pathname |-> r.pathname, search |-> r.search, hash |-> r.hash]

-----------------------------------------------------------------------------
(* Inputs of matchRoutes                                                   *)

\* the longest route list handed to matchRoutes
MaxRoutes == 2

Route(path) ==
  [hasPath |-> TRUE, path |-> path, index |-> FALSE, caseSensitive |-> FALSE,
   children |-> << >>]

NoPathRoute(index, children) ==
  [hasPath |-> FALSE, path |-> << >>, index |-> index, caseSensitive |-> FALSE,
   children |-> children]

usersNew == <<"/", "u", "s", "e", "r", "s", "/", "n", "e", "w">>
usersId == <<"/", "u", "s", "e", "r", "s", "/", ":", "i", "d">>
dashboard == <<"/", "d", "a", "s", "h", "b", "o", "a", "r", "d">>

dynamicRoute == Route(usersId)
staticRoute == Route(usersNew)
relativeRoute == Route(<<"u", "s", "e", "r", "s", "/", "n", "e", "w">>)
caseRoute == [Route(<<"/", "U", "s", "e", "r", "s", "/", "n", "e", "w">>) EXCEPT !.caseSensitive = TRUE]
splatRoute == Route(Star)
indexRoute == NoPathRoute(TRUE, << >>)
\* /dashboard with an index child
dashboardRoute == [Route(dashboard) EXCEPT !.children = <<indexRoute>>]
\* a layout route without a path, with one child
layoutRoute == NoPathRoute(FALSE, <<Route(<<"s", "e", "t", "t", "i", "n", "g", "s">>)>>)
\* /dashboard with an absolute child that is not under /dashboard
misnestedRoute == [Route(dashboard) EXCEPT !.children = <<Route(<<"/", "o", "t", "h", "e", "r">>)>>]

RoutePool ==
  {dynamicRoute, staticRoute, relativeRoute, caseRoute, splatRoute, indexRoute,
   dashboardRoute, layoutRoute, misnestedRoute}

RouteLists == UNION {[1..n -> RoutePool] : n \in 0..MaxRoutes}

appBase == <<"/", "a", "p", "p">>

PlainPathnames ==
  {usersNew,
   <<"/", "u", "s", "e", "r", "s", "/", "4", "2">>,
   <<"/", "u", "s", "e", "r", "s", "/", "%", "4", "1">>,
   dashboard,
   <<"/", "d", "a", "s", "h", "b", "o", "a", "r", "d", "/", "x">>,
   <<"/", "s", "e", "t", "t", "i", "n", "g", "s">>,
   <<"/", "o", "t", "h", "e", "r">>,
   <<"/">>,
   << >>}

Pathnames ==
  PlainPathnames
    \cup {appBase \o p : p \in {usersNew, dashboard, <<"/">>, << >>, <<"l", "e">>}}
    \cup {<<"/", "A", "P", "P">> \o usersNew}

Basenames == {<<"/">>, appBase}

NoRet == [pending |-> TRUE]

\* the stores as index.ts creates them: restore(locationChanged, null),
\* createStore([]) and createStore([])
StoresCreated ==
  /\ S_location = null
  /\ S_routes = << >>
  /\ S_matchedRoutes = << >>

-----------------------------------------------------------------------------
(* matchRoutes is called once on each input                                *)

Init ==
  /\ fn = "matchRoutes"
  /\ args \in [routes : RouteLists, locationArg : Pathnames, basename : Basenames]
  /\ ret = NoRet
  /\ pc = "call"
  /\ StoresCreated

MatchRoutesCall ==
  /\ fn = "matchRoutes" /\ pc = "call"
  /\ ret' = matchRoutesRun(args.routes, args.locationArg, args.basename)
  /\ pc' = "done"
  /\ UNCHANGED <<fn, args>>
  /\ UNCHANGED stores

Next == MatchRoutesCall

Spec == Init /\ [][Next]_vars

MatchDone == fn = "matchRoutes" /\ pc = "done"

-----------------------------------------------------------------------------
(* Properties of matchRoutes                                               *)

Min(S) == CHOOSE m \in S : \A n \in S : m <= n

Last(seq) == seq[Len(seq)]

\* the run went as far as flattening, ranking and matching
Ranked == MatchDone /\ ~ret.pathname.isNull /\ ~ret.threw

\* the positions of the ranked branches that match the stripped pathname
MatchingBranches ==
  {i \in 1..Len(ret.branches) :
     ~matchRouteBranch(ret.branches[i], args.routes, ret.pathname.v).isNull}

Occurrences(seq, x) == Cardinality({i \in 1..Len(seq) : seq[i] = x})

SameElements(a, b) ==
  /\ Len(a) = Len(b)
  /\ \A i \in 1..Len(a) : Occurrences(a, a[i]) = Occurrences(b, a[i])

ScoreOrdered(branches) ==
  \A i, j \in 1..Len(branches) : i < j => branches[i].score >= branches[j].score

\* C1: matchRoutes tries the flattened branches in ranked order and returns
\* the match of the first branch that matches the pathname; it returns null
\* exactly when no branch matches, and tries no branch after a match.
C1_FirstRankedMatch ==
  Ranked =>
    /\ SameElements(ret.branches, ret.flat)
    /\ ScoreOrdered(ret.branches)
    /\ IF MatchingBranches = {}
         THEN ret.matches.isNull /\ ret.tried = Len(ret.branches)
         ELSE LET first == Min(MatchingBranches)
              IN  /\ ret.matches =
                       matchRouteBranch(ret.branches[first], args.routes,
                                        ret.pathname.v)
                  /\ ret.tried = first

\* two ranked branches match and the result is the first one's
C1_Witness ==
  /\ Ranked
  /\ Cardinality(MatchingBranches) >= 2
  /\ ~ret.matches.isNull
  /\ ret.tried < Len(ret.branches)
  /\ ret.matches.matches[1].route = dynamicRoute

InList(routes, r) == \E i \in 1..Len(routes) : routes[i] = r

BranchOf(branches, path) ==
  CHOOSE b \in {branches[i] : i \in 1..Len(branches)} : b.path = path

\* /users/new is matched against a list holding /users/:id and /users/new
PrecedenceCase ==
  /\ Ranked
  /\ InList(args.routes, dynamicRoute) /\ InList(args.routes, staticRoute)
  /\ args.locationArg = usersNew /\ args.basename = <<"/">>

StaticRouteWins ==
  /\ ~ret.matches.isNull
  /\ LET route == ret.matches.matches[1].route
     IN  /\ route # dynamicRoute
         /\ route.hasPath /\ joinPaths(<<<< >>, route.path>>) = usersNew
         /\ Len(args.routes) = 2 => route = staticRoute

\* C2 as stated: the static route wins whatever the declaration order, and
\* the branches score 20 (static) and 13 (dynamic).
C2_Original ==
  PrecedenceCase =>
    /\ StaticRouteWins
    /\ BranchOf(ret.branches, usersNew).score = 20
    /\ BranchOf(ret.branches, usersId).score = 13

\* C2 amended: the static route wins whatever the declaration order, and the
\* branches score 24 (static: 3 segments + 1 + 10 + 10) and 17 (dynamic:
\* 3 segments + 1 + 10 + 3).
C2_StaticBeatsDynamic ==
  PrecedenceCase =>
    /\ StaticRouteWins
    /\ BranchOf(ret.branches, usersNew).score = 24
    /\ BranchOf(ret.branches, usersId).score = 17

\* the dynamic route is declared first and the static route is returned
C2_Witness ==
  /\ PrecedenceCase
  /\ args.routes = <<dynamicRoute, staticRoute>>
  /\ ret.matches.matches[1].route = staticRoute

\* C3: with a basename B other than "/", matchRoutes(routes, B + P, B) is
\* matchRoutes(routes, P), B compared without regard to case and the pathname
\* B alone treated as "/"; a pathname that does not start with B, or that has
\* a character other than "/" right after B, gives null and no branch is
\* flattened or tried.
C3_BasenameStripping ==
  (MatchDone /\ args.basename # <<"/">>) =>
    LET B == args.basename
        X == args.locationArg
        hasPrefix == startsWith(toLowerCase(X), toLowerCase(B))
    IN  /\ hasPrefix =>
              ret.matches = matchRoutes(args.routes, slice(X, Len(B)), <<"/">>)
        /\ (~hasPrefix \/ (Len(X) > Len(B) /\ X[Len(B) + 1] # "/")) =>
              /\ ret.matches.isNull
              /\ ret.tried = 0 /\ ret.flat = << >> /\ ret.branches = << >>

\* /APP/users/new under the basename /app matches as /users/new does
C3_Witness ==
  /\ MatchDone
  /\ args.basename = appBase
  /\ args.locationArg = <<"/", "A", "P", "P">> \o usersNew
  /\ ~ret.matches.isNull
  /\ ret.matches.matches[1].pathname = usersNew

\* a route with path /dashboard that has an index route among its children
HasIndexChild(route) ==
  /\ route.hasPath /\ route.path = dashboard
  /\ \E j \in 1..Len(route.children) : route.children[j].index

\* C4: with an index route as a child of /dashboard, matching /dashboard
\* returns a chain whose last element is the index route, and matching
\* /dashboard/anything returns no chain that contains the index route.
C4_IndexExclusivity ==
  (MatchDone /\ args.basename = <<"/">>
     /\ \E i \in 1..Len(args.routes) : HasIndexChild(args.routes[i])) =>
    /\ args.locationArg = dashboard =>
         /\ ~ret.matches.isNull
         /\ Last(ret.matches.matches).route.index
    /\ args.locationArg = <<"/", "d", "a", "s", "h", "b", "o", "a", "r", "d", "/", "x">> =>
         \/ ret.matches.isNull
         \/ \A k \in 1..Len(ret.matches.matches) :
              ~ret.matches.matches[k].route.index

Matchable(route) == route.hasPath \/ route.index

pathOrEmpty(route) == IF route.hasPath THEN route.path ELSE << >>

\* an absolute child path that does not start with the path of its parent
Misnested(routes) ==
  \E i \in 1..Len(routes) : \E j \in 1..Len(routes[i].children) :
    LET child == routes[i].children[j]
        parentPath == joinPaths(<<<< >>, pathOrEmpty(routes[i])>>)
    IN  /\ child.hasPath /\ startsWith(child.path, <<"/">>)
        /\ ~startsWith(child.path, parentPath)

\* the chains of childrenIndex of the routes, at depth one and two, that have
\* a path or are index routes
ExpectedChains(routes) ==
  {<<i - 1>> : i \in {k \in 1..Len(routes) : Matchable(routes[k])}}
    \cup UNION {{<<i - 1, j - 1>> :
                   j \in {k \in 1..Len(routes[i].children) :
                            Matchable(routes[i].children[k])}} :
                i \in 1..Len(routes)}

\* the combined absolute path of the route at a chain
ChainPath(routes, chain) ==
  LET top == routes[chain[1] + 1]
      parentPath == joinPaths(<<<< >>, pathOrEmpty(top)>>)
  IN  IF Len(chain) = 1 THEN parentPath
      ELSE LET rel == pathOrEmpty(top.children[chain[2] + 1])
           IN  joinPaths(<<parentPath,
                           IF startsWith(rel, <<"/">>)
                             THEN slice(rel, Len(parentPath)) ELSE rel>>)

\* C5: every route at any depth that has a path or is an index route yields
\* exactly one branch, whose routesMeta is the chain from the root to the
\* route and whose path is the combined absolute path; a route with neither
\* yields no branch but its children yield theirs.
C5_FlattenNested ==
  (Ranked /\ ~Misnested(args.routes)) =>
    /\ Len(ret.flat) = Cardinality(ExpectedChains(args.routes))
    /\ \A chain \in ExpectedChains(args.routes) :
         \E i \in 1..Len(ret.flat) :
           /\ childrenIndexes(ret.flat[i]) = chain
           /\ ret.flat[i].path = ChainPath(args.routes, chain)

Siblings(a, b) ==
  /\ Len(a.routesMeta) = Len(b.routesMeta)
  /\ \A k \in 1..(Len(a.routesMeta) - 1) :
       a.routesMeta[k].childrenIndex = b.routesMeta[k].childrenIndex

\* C7: after rankRouteBranches the branches are in non-increasing score
\* order, and of two sibling branches of equal score the one with the lower
\* last childrenIndex comes first.
C7_SiblingTieBreak ==
  Ranked =>
    \A i, j \in 1..Len(ret.branches) :
      LET a == ret.branches[i]
          b == ret.branches[j]
      IN  i < j =>
            /\ a.score >= b.score
            /\ (a.score = b.score /\ Siblings(a, b)) =>
                 Last(a.routesMeta).childrenIndex < Last(b.routesMeta).childrenIndex

\* two sibling branches of equal score were ranked
C7_Witness ==
  /\ Ranked
  /\ Len(ret.branches) >= 2
  /\ ret.branches[1].score = ret.branches[2].score
  /\ Siblings(ret.branches[1], ret.branches[2])
  /\ ret.branches[1].path = usersNew

\* C10: a route tree with an absolute child path that does not start with
\* the combined path of its parents makes flattening, and matchRoutes, abort
\* with an error.
C10_MisnestedAborts ==
  (MatchDone /\ ~ret.pathname.isNull /\ Misnested(args.routes)) => ret.threw

-----------------------------------------------------------------------------
(* computeScore along a path that grows one segment at a time              *)

\* the most segments appended to a path
MaxSegments == 3

StaticSegments == {<<"u", "s", "e", "r", "s">>, <<"n", "e", "w">>, <<":">>, <<"a", "*">>}
DynamicSegments == {<<":", "i", "d">>, <<":", "a", "_", "1">>}
SegmentPool == StaticSegments \cup DynamicSegments \cup {Star, << >>}

InitScore ==
  /\ fn = "computeScore"
  /\ args = [path |-> << >>, index |-> FALSE]
  /\ ret = NoRet
  /\ pc = "call"
  /\ StoresCreated

ComputeScoreCall ==
  /\ fn = "computeScore" /\ pc = "call"
  /\ ret' = computeScore(args.path, args.index)
  /\ pc' = "done"
  /\ UNCHANGED <<fn, args>>
  /\ UNCHANGED stores

\* a child segment is joined to the path and the longer path is scored
AppendSegment ==
  /\ fn = "computeScore" /\ pc = "done"
  /\ Len(split(args.path)) <= MaxSegments
  /\ \E segment \in SegmentPool :
       /\ args' = [args EXCEPT !.path = @ \o <<"/">> \o segment]
       /\ ret' = computeScore(args.path \o <<"/">> \o segment, args.index)
  /\ UNCHANGED <<fn, pc>>
  /\ UNCHANGED stores

\* the same path is scored for an index route
SetIndex ==
  /\ fn = "computeScore" /\ pc = "done"
  /\ ~args.index
  /\ args' = [args EXCEPT !.index = TRUE]
  /\ ret' = computeScore(args.path, TRUE)
  /\ UNCHANGED <<fn, pc>>
  /\ UNCHANGED stores

NextScore == ComputeScoreCall \/ AppendSegment \/ SetIndex

SpecScore == InitScore /\ [][NextScore]_vars

Scored == fn = "computeScore" /\ pc = "done"

Appended(segment) ==
  args'.path = args.path \o <<"/">> \o segment /\ args'.index = args.index

AppendedStatic == \E segment \in StaticSegments : Appended(segment)

AppendedDynamic == \E segment \in DynamicSegments : Appended(segment)

IndexSet == args'.path = args.path /\ ~args.index /\ args'.index

RECURSIVE SumOf(_, _)
SumOf(f, S) ==
  IF S = {} THEN 0
  ELSE LET x == CHOOSE y \in S : TRUE IN f[x] + SumOf(f, S \ {x})

\* what the segments of the scored path add to the base score
SegmentsWorth ==
  LET segments == split(args.path)
      worth == [i \in 1..Len(segments) |->
                  IF segments[i] \in StaticSegments THEN 10
                  ELSE IF segments[i] \in DynamicSegments THEN 3
                  ELSE IF segments[i] = << >> THEN 1
                  ELSE 0]
  IN  SumOf(worth, 1..Len(segments))

\* the splat rule: the score without the worth of the segments and without
\* the index bonus is the segment count, lowered by 2 when a splat is present
SplatLowersBase ==
  Scored =>
    LET segments == split(args.path)
        base == ret - SegmentsWorth - (IF args.index THEN 2 ELSE 0)
    IN  base = Len(segments)
                 - (IF \E i \in 1..Len(segments) : segments[i] = Star
                      THEN 2 ELSE 0)

\* C6 as stated: appending a static segment raises the score by exactly 10,
\* appending a dynamic segment by exactly 3, the index flag by exactly 2, and
\* a splat lowers the base score by 2.
C6_Original ==
  /\ []SplatLowersBase
  /\ [][(Scored /\ pc' = "done") =>
          /\ AppendedStatic => ret' = ret + 10
          /\ AppendedDynamic => ret' = ret + 3
          /\ IndexSet => ret' = ret + 2]_vars

\* C6 amended: appending a static segment raises the score by exactly 11
\* (10 for the segment and 1 for the segment count), appending a dynamic
\* segment by exactly 4 (3 and 1), the index flag by exactly 2, and a splat
\* lowers the base score by 2.
C6_ScoreSteps ==
  /\ []SplatLowersBase
  /\ [][(Scored /\ pc' = "done") =>
          /\ AppendedStatic => ret' = ret + 11
          /\ AppendedDynamic => ret' = ret + 4
          /\ IndexSet => ret' = ret + 2]_vars

\* an index route on /users/:id/* has been scored
C6_Witness ==
  /\ Scored
  /\ args.path = <<"/", "u", "s", "e", "r", "s", "/", ":", "i", "d", "/", "*">>
  /\ args.index
  /\ ret = (4 - 2) + 2 + 1 + 10 + 3

-----------------------------------------------------------------------------
(* generatePath followed by matchPath on the generated pathname            *)

PatternPool ==
  {usersId,
   <<"u", "s", "e", "r", "s", "/", ":", "i", "d">>,
   <<"/", ":", "a", "/", ":", "b">>,
   <<"/", "u", "s", "e", "r", "s", "/", ":", "i", "d", "/">>,
   <<"/", "f", "i", "l", "e", "s", "/", "*">>,
   usersNew,
   <<":", "i", "d">>}

ParamNamePool == {<<"i", "d">>, <<"a">>, <<"b">>, Star}

ValuePool == {<<"4", "2">>, <<"x", "-", "y">>, << >>, <<"%", "4", "1">>, <<"a", "/", "b">>}

ParamsPool == UNION {[D -> ValuePool] : D \in SUBSET ParamNamePool}

InitPath ==
  /\ fn = "generatePath"
  /\ args \in [path : PatternPool, params : ParamsPool]
  /\ ret = NoRet
  /\ pc = "call"
  /\ StoresCreated

GeneratePathCall ==
  /\ fn = "generatePath" /\ pc = "call"
  /\ ret' = generatePath(args.path, args.params)
  /\ pc' = IF ret'.threw THEN "threw" ELSE "generated"
  /\ UNCHANGED <<fn, args>>
  /\ UNCHANGED stores

\* matchPath(pattern, pathname) with the pattern given as a string
MatchPathCall ==
  /\ fn = "generatePath" /\ pc = "generated"
  /\ fn' = "matchPath"
  /\ ret' = [pathname |-> ret.v,
             match |-> matchPath(stringPattern(args.path), ret.v)]
  /\ pc' = "done"
  /\ UNCHANGED args
  /\ UNCHANGED stores

NextPath == GeneratePathCall \/ MatchPathCall

SpecPath == InitPath /\ [][NextPath]_vars

UnreservedChars == WordChars \cup {"-", ".", "~"}

UrlSafe(v) == \A i \in 1..Len(v) : v[i] \in UnreservedChars

IsParamSegment(seg) ==
  Len(seg) >= 2 /\ seg[1] = ":" /\ \A i \in 2..Len(seg) : seg[i] \in WordChars

IsLiteralSegment(seg) ==
  Len(seg) >= 1 /\ \A i \in 1..Len(seg) : seg[i] \notin {":", "*", "/"}

PlainSegments(segs) ==
  \A i \in 1..Len(segs) : IsParamSegment(segs[i]) \/ IsLiteralSegment(segs[i])

\* literal and :param segments only
PlainPattern(path) ==
  LET segs == split(path)
  IN  IF segs[1] = << >> THEN Len(segs) >= 2 /\ PlainSegments(Tail(segs))
      ELSE PlainSegments(segs)

NamedSegments(path) ==
  LET segs == split(path)
  IN  {Tail(segs[i]) : i \in {k \in 1..Len(segs) : IsParamSegment(segs[k])}}

RoundTripCase ==
  /\ fn = "matchPath" /\ pc = "done"
  /\ PlainPattern(args.path)
  /\ DOMAIN args.params = NamedSegments(args.path)
  /\ \A n \in DOMAIN args.params : UrlSafe(args.params[n])

RoundTrips == ~ret.match.isNull /\ ret.match.params = args.params

\* C8 as stated: for every pattern of literal and :param segments without a
\* splat and every params that gives each named segment a URL-safe value,
\* matchPath(pattern, generatePath(pattern, params)) is not null and its
\* params are the given params.
C8_Original == RoundTripCase => RoundTrips

\* C8 amended: the same for every such pattern that starts with "/" and
\* every such params whose values are not empty.
C8_RoundTrip ==
  (RoundTripCase /\ startsWith(args.path, <<"/">>)
     /\ \A n \in DOMAIN args.params : args.params[n] # << >>) => RoundTrips

\* /:a/:b generated with two different values and matched again
C8_Witness ==
  /\ RoundTripCase
  /\ args.path = <<"/", ":", "a", "/", ":", "b">>
  /\ args.params = (<<"a">> :> <<"4", "2">>) @@ (<<"b">> :> <<"x", "-", "y">>)
  /\ ret.pathname = <<"/", "4", "2", "/", "x", "-", "y">>
  /\ RoundTrips

-----------------------------------------------------------------------------
(* resolveTo                                                               *)

\* the most leading ".." segments of a target
MaxUps == 3

\* the longest list of ancestor route pathnames
MaxAncestors == 2

LevelNames == <<"a", "b", "c", "d", "e", "f">>

\* the pathname of the route at a level: /a, /a/b, /a/b/c, ...
RECURSIVE AncestorPathname(_)
AncestorPathname(level) ==
  IF level = 0 THEN << >>
  ELSE AncestorPathname(level - 1) \o <<"/", LevelNames[level]>>

RoutePathnamesPool ==
  {[i \in 1..n |-> AncestorPathname(i)] : n \in 0..MaxAncestors}
    \cup {<<<<"/", "a", "/">>>>}

Ups(k) == [i \in 1..k |-> <<".", ".">>]

\* what follows the leading ".." segments of a target, as segments
RestPool ==
  {<< >>, <<<< >>>>, <<<<"s", "i", "b", "l", "i", "n", "g">>>>, <<<<"s", "i", "b", "l", "i", "n", "g">>, << >>>>,
   <<<<"x">>, <<".", ".">>, <<"y">>>>, <<<<".">>, <<"s", "i", "b", "l", "i", "n", "g">>>>}

Targets ==
  {join(Ups(k) \o rest) : k \in 0..MaxUps, rest \in RestPool}
    \cup {<<"/", "a", "b", "s">>, <<"?", "q">>, <<".", ".", "f", "o", "o">>, <<".", ".", "/", "x", "#", "h">>}

InitResolve ==
  /\ fn = "resolveTo"
  /\ args \in [toArg : Targets, routePathnames : RoutePathnamesPool,
               locationPathname : {<<"/", "a", "/", "b", "/", "c", "u", "r", "r", "e", "n", "t">>}]
  /\ ret = NoRet
  /\ pc = "call"
  /\ StoresCreated

ResolveToCall ==
  /\ fn = "resolveTo" /\ pc = "call"
  /\ ret' = resolveToRun(args.toArg, args.routePathnames, args.locationPathname)
  /\ pc' = "done"
  /\ UNCHANGED <<fn, args>>
  /\ UNCHANGED stores

NextResolve == ResolveToCall

SpecResolve == InitResolve /\ [][NextResolve]_vars

\* the number of leading ".." segments
LeadingUps(segs) ==
  Cardinality({j \in 1..Len(segs) : \A i \in 1..j : segs[i] = <<".", ".">>})

\* the target of the call has a pathname
ResolveCase ==
  /\ fn = "resolveTo" /\ pc = "done"
  /\ parsePath(args.toArg).pathname.def

\* C9: with k leading ".." segments in the target pathname and n ancestor
\* pathnames, the base is routePathnames[n-1-k] when k < n and "/" when
\* k >= n, and the remaining target segments are resolved against the base;
\* resolveTo("../sibling", ["/a", "/a/b"], "/a/b/current") is /a/sibling.
C9_RelativeResolution ==
  ResolveCase =>
    LET toPathname == parsePath(args.toArg).pathname.v
        segs == split(toPathname)
        k == LeadingUps(segs)
        n == Len(args.routePathnames)
        base == IF k < n THEN args.routePathnames[n - k] ELSE <<"/">>
        rest == join(SubSeq(segs, k + 1, Len(segs)))
        resolved == IF rest = << >> THEN base
                    ELSE IF startsWith(rest, <<"/">>) THEN rest
                    ELSE resolvePathname(rest, base)
        slash == toPathname # <<"/">> /\ endsWith(toPathname, <<"/">>)
                 /\ ~endsWith(resolved, <<"/">>)
    IN  /\ ret.from = base
        /\ ret.pathname = IF slash THEN resolved \o <<"/">> ELSE resolved
        /\ (args.toArg = <<".", ".", "/", "s", "i", "b", "l", "i", "n", "g">>
              /\ args.routePathnames = <<<<"/", "a">>, <<"/", "a", "/", "b">>>>) =>
             ret.pathname = <<"/", "a", "/", "s", "i", "b", "l", "i", "n", "g">>

\* ../sibling has been resolved one route level up
C9_Witness ==
  /\ ResolveCase
  /\ args.toArg = <<".", ".", "/", "s", "i", "b", "l", "i", "n", "g">>
  /\ args.routePathnames = <<<<"/", "a">>, <<"/", "a", "/", "b">>>>
  /\ args.locationPathname = <<"/", "a", "/", "b", "/", "c", "u", "r", "r", "e", "n", "t">>
  /\ ret.from = <<"/", "a">>
  /\ ret.pathname = <<"/", "a", "/", "s", "i", "b", "l", "i", "n", "g">>

-----------------------------------------------------------------------------
(* The reactive layer of index.ts: the events locationChanged,             *)
(* routeInitialized and routeDestroyed and the stores they write.  The     *)
(* effector kernel runs one event to completion before the next, so one    *)
(* event with everything it triggers is one step.                          *)

\* a Location object of the history package with this pathname
Location(pathname) ==
  [pathname |-> [def |-> TRUE, v |-> pathname],
   search |-> [def |-> TRUE, v |-> << >>],
   hash |-> [def |-> TRUE, v |-> << >>]]

\* $routes.on(routeInitialized, (routes, route) => [...routes, route])
onRouteInitialized(routes, route) == routes \o <<route>>

\* $routes.on(routeDestroyed, ...): routes.filter(...) keeps the routes
\* whose path !== destroyedRoute.path; a route without a path has the path
\* undefined, which is never === a string
onRouteDestroyed(routes, destroyedRoute) ==
  SelectSeq(routes,
            LAMBDA route : ~(route.hasPath /\ route.path = destroyedRoute.path))

\* the filter of guard({clock: $location, filter: Boolean})
guardFilter(location) == location # null

\* the fn of sample: lib.matchRoutes(routes, location) || []
sampleFn(routes, location) ==
  CHOOSE r \in
    {IF matches.isNull THEN << >> ELSE matches.matches :
       matches \in {matchRoutesLocation(routes, location, <<"/">>)}} :
    TRUE

EventRoutes == {staticRoute, dynamicRoute, splatRoute, indexRoute}

Locations ==
  {Location(usersNew), Location(<<"/", "u", "s", "e", "r", "s", "/", "4", "2">>), Location(<<"/", "o", "t", "h", "e", "r">>),
   Location(<<"/">>)}

DestroyedPaths == {usersNew, usersId, Star, dashboard}

\* index.ts has been loaded and no event has fired
InitStores ==
  /\ fn = "index"
  /\ args = [payload |-> null]
  /\ ret = NoRet
  /\ pc = "done"
  /\ StoresCreated

\* history.listen calls locationChanged(location): restore writes
\* $location, and when the guard lets the update through sample writes
\* fn($routes, location) to $matchedRoutes
LocationChanged ==
  \E location \in Locations \cup {null} :
    /\ fn' = "locationChanged"
    /\ args' = [payload |-> location]
    /\ S_location' = location
    /\ S_matchedRoutes' = IF guardFilter(location)
                            THEN sampleFn(S_routes, location)
                            ELSE S_matchedRoutes
    /\ UNCHANGED <<S_routes, ret, pc>>

\* routeInitialized(route) that also runs the sample against the new $routes
RouteInitializedResampled ==
  \E route \in EventRoutes :
    /\ Len(S_routes) < MaxRoutes
    /\ fn' = "routeInitialized"
    /\ args' = [payload |-> route]
    /\ S_routes' = onRouteInitialized(S_routes, route)
    /\ S_matchedRoutes' = IF guardFilter(S_location)
                            THEN sampleFn(S_routes', S_location)
                            ELSE S_matchedRoutes
    /\ UNCHANGED <<S_location, ret, pc>>

\* routeInitialized(route); $routes holds at most MaxRoutes routes
RouteInitialized ==
  \E route \in EventRoutes :
    /\ Len(S_routes) < MaxRoutes
    /\ fn' = "routeInitialized"
    /\ args' = [payload |-> route]
    /\ S_routes' = onRouteInitialized(S_routes, route)
    /\ UNCHANGED <<S_location, S_matchedRoutes, ret, pc>>

\* routeDestroyed({path})
RouteDestroyed ==
  \E path \in DestroyedPaths :
    /\ fn' = "routeDestroyed"
    /\ args' = [payload |-> [path |-> path]]
    /\ S_routes' = onRouteDestroyed(S_routes, args'.payload)
    /\ UNCHANGED <<S_location, S_matchedRoutes, ret, pc>>

NextStores == LocationChanged \/ RouteInitialized \/ RouteDestroyed

SpecStores == InitStores /\ [][NextStores]_vars

\* the routes of the list, in order, without those that have this path
RECURSIVE WithoutPath(_, _)
WithoutPath(routes, path) ==
  IF routes = << >> THEN << >>
  ELSE IF Head(routes).hasPath /\ Head(routes).path = path
    THEN WithoutPath(Tail(routes), path)
  ELSE <<Head(routes)>> \o WithoutPath(Tail(routes), path)

\* matchRoutes(R, L), or [] when that is null, L given by its pathname
MatchesOrEmpty(R, L) ==
  LET m == matchRoutes(R, L.pathname.v, <<"/">>)
  IN  IF m.isNull THEN << >> ELSE m.matches

\* this step is the arrival of a location that is not null
Arrival == fn' = "locationChanged" /\ args'.payload # null

\* C11: the arrival of a non-null location L writes matchRoutes(R, L), or
\* [] when that is null, to $matchedRoutes, R being the value of $routes at
\* that moment; every other event leaves $matchedRoutes as it is:
\* routeInitialized appends its route to $routes and routeDestroyed removes
\* every top-level route with that path, and neither recomputes
\* $matchedRoutes against the new $routes.
C11_SampledOnLocation ==
  [][/\ Arrival =>
          /\ S_location' = args'.payload
          /\ S_routes' = S_routes
          /\ S_matchedRoutes' = MatchesOrEmpty(S_routes, args'.payload)
     /\ ~Arrival => S_matchedRoutes' = S_matchedRoutes
     /\ fn' = "routeInitialized" =>
          S_routes' = Append(S_routes, args'.payload)
     /\ fn' = "routeDestroyed" =>
          S_routes' = WithoutPath(S_routes, args'.payload.path)]_vars

\* /users/new arrived while $routes held the dynamic route only, the static
\* route was initialized afterwards: $matchedRoutes still holds the match of
\* the dynamic route, which is not what the current $routes would give
C11_Witness ==
  /\ fn = "routeInitialized"
  /\ S_location = Location(usersNew)
  /\ S_routes = <<dynamicRoute, staticRoute>>
  /\ Len(S_matchedRoutes) = 1
  /\ S_matchedRoutes[1].route = dynamicRoute
  /\ S_matchedRoutes # MatchesOrEmpty(S_routes, S_location)
====
